---- MODULE Spec2Model ----
(***************************************************************************)
(* Model of the Leaseweb provider for libdns: the record translator        *)
(* (helpers.go), the remote calls (client.go) and the four public          *)
(* operations of Provider.                                                 *)
(***************************************************************************)
EXTENDS Integers, Sequences, FiniteSets, TLC

\* ------------------------------------------------------------------------
\* Bounds
\* ------------------------------------------------------------------------

\* Longest input list handed to the translator on its own.
MaxRecords == 2

\* Longest input list handed to a public operation of the provider.
MaxOpRecords == 2

\* Resolution of time.Duration: a second is TicksPerSecond ticks, so that
\* durations that are not whole seconds exist.
TicksPerSecond == 2

\* ------------------------------------------------------------------------
\* Strings
\* ------------------------------------------------------------------------

\* strings.TrimSuffix
TrimSuffix(s, suffix) ==
    IF Len(s) >= Len(suffix) /\ SubSeq(s, Len(s) - Len(suffix) + 1, Len(s)) = suffix
    THEN SubSeq(s, 1, Len(s) - Len(suffix))
    ELSE s

\* ------------------------------------------------------------------------
\* helpers.go
\* ------------------------------------------------------------------------

supportedTTLs == <<60, 300, 1800, 3600, 14400, 28800, 43200, 86400>>

Contains(seq, x) == \E i \in 1..Len(seq) : seq[i] = x

\* time.Second, in ticks
Second == TicksPerSecond

\* int(d.Seconds()): the whole seconds of a duration
Seconds(d) == d \div Second

\* helpers.go:51, the name of the record set of a record
recordName(zone, name) ==
    TrimSuffix(TrimSuffix(name, zone), TrimSuffix(zone, ".")) \o "." \o zone

\* helpers.go:52-57, the TTL of the record set of a record
recordTTL(d) ==
    IF Contains(supportedTTLs, Seconds(d)) THEN Seconds(d) ELSE supportedTTLs[1]

\* helpers.go:72, does the inner loop merge record `other` into the set
\* that was opened with name setName for record `current`
SameGroup(other, setName, current) ==
    other.Name = setName /\ other.Type = current.Type

\* helpers.go:66-82, the inner loop from otherIdx on; st holds consumed,
\* errors and newRecordSet
RECURSIVE InnerLoop(_, _, _, _)
InnerLoop(records, currentIdx, otherIdx, st) ==
    IF otherIdx > Len(records) THEN st
    ELSE IF otherIdx = currentIdx THEN InnerLoop(records, currentIdx, otherIdx + 1, st)
    ELSE IF SameGroup(records[otherIdx], st.newRecordSet.Name, records[currentIdx])
    THEN LET otherTTL == Seconds(records[otherIdx].TTL)
             errs == IF otherTTL # st.newRecordSet.TTL
                     THEN Append(st.errors, [Name |-> st.newRecordSet.Name,
                                             TTL |-> st.newRecordSet.TTL,
                                             otherTTL |-> otherTTL])
                     ELSE st.errors
         IN InnerLoop(records, currentIdx, otherIdx + 1,
                [consumed |-> [st.consumed EXCEPT ![otherIdx] = TRUE],
                 errors |-> errs,
                 newRecordSet |-> [st.newRecordSet EXCEPT
                     !.Content = Append(@, records[otherIdx].Value)]])
    ELSE InnerLoop(records, currentIdx, otherIdx + 1, st)

\* helpers.go:34-85, the outer loop from currentIdx on
RECURSIVE OuterLoop(_, _, _, _, _, _)
OuterLoop(zone, records, currentIdx, consumed, errors, recordSets) ==
    IF currentIdx > Len(records)
    THEN [errors |-> errors, recordSets |-> recordSets]
    ELSE IF consumed[currentIdx]
    THEN OuterLoop(zone, records, currentIdx + 1, consumed, errors, recordSets)
    ELSE LET cur == records[currentIdx]
             st == InnerLoop(records, currentIdx, 1,
                     [consumed |-> [consumed EXCEPT ![currentIdx] = TRUE],
                      errors |-> errors,
                      newRecordSet |-> [Name |-> recordName(zone, cur.Name),
                                        Type |-> cur.Type,
                                        TTL |-> recordTTL(cur.TTL),
                                        Content |-> <<cur.Value>>]])
         IN OuterLoop(zone, records, currentIdx + 1, st.consumed, st.errors,
                      Append(recordSets, st.newRecordSet))

\* helpers.go:15-92 without the test of len(errors) at helpers.go:87-89
fromLibdns_noErrorCheck(zone, records) ==
    LET r == OuterLoop(zone, records, 1, [i \in 1..Len(records) |-> FALSE], <<>>, <<>>)
    IN [recordSets |-> r.recordSets, err |-> <<>>]

\* helpers.go:15-92; err is the list of TTL conflicts, empty for a nil error
fromLibdns(zone, records) ==
    LET r == OuterLoop(zone, records, 1, [i \in 1..Len(records) |-> FALSE], <<>>, <<>>)
    IN IF Len(r.errors) > 0
       THEN [recordSets |-> <<>>, err |-> r.errors]
       ELSE [recordSets |-> r.recordSets, err |-> <<>>]

\* helpers.go:97-105, the records of one record set
RECURSIVE ExpandContent(_, _)
ExpandContent(rs, i) ==
    IF i > Len(rs.Content) THEN <<>>
    ELSE <<[Name |-> rs.Name, Type |-> rs.Type, Value |-> rs.Content[i],
            TTL |-> rs.TTL * Second]>> \o ExpandContent(rs, i + 1)

\* helpers.go:94-108
RECURSIVE fromLeaseweb(_)
fromLeaseweb(recordSets) ==
    IF recordSets = <<>> THEN <<>>
    ELSE ExpandContent(Head(recordSets), 1) \o fromLeaseweb(Tail(recordSets))

\* ------------------------------------------------------------------------
\* Inputs of the translator
\* ------------------------------------------------------------------------

Zones == {"example.com.", "example.com"}

Names == {"a", "sub", "sub.example.com", "sub.example.com."}

Types == {"TXT", "A"}

Values == {"x", "y"}

\* durations: unset, 300s, 300s and a fraction, 3600s
TTLs == {0, 300 * Second, 300 * Second + 1, 3600 * Second}

Records == [Name : Names, Type : Types, Value : Values, TTL : TTLs]

SeqsUpTo(S, n) == UNION {[1..k -> S] : k \in 0..n}

\* ------------------------------------------------------------------------
\* State
\* ------------------------------------------------------------------------

VARIABLES
    tpc,        \* translator run: "off", "input", "translated", "flattened"
    tzone,      \* translator run: the zone
    trecords,   \* translator run: the input records
    tres,       \* translator run: what fromLibdns returned
    tback,      \* translator run: what fromLeaseweb made of tres.recordSets
    mutex,      \* Provider.mutex: 0 when free, else the caller holding it
    pc,         \* per caller: where its invocation stands
    req,        \* per caller: the operation invoked and its arguments
    existing,   \* per caller: existingRecordSets of SetRecords / recordSets of GetRecords
    tr,         \* per caller: recordSets, err returned by fromLibdns
    idx,        \* per caller: position of the range loop over recordSets
    updated,    \* per caller: updatedRecords of SetRecords
    ret,        \* per caller: what the operation returned
    calls       \* the remote calls issued so far, in order

pvars == <<mutex, pc, req, existing, tr, idx, updated, ret, calls>>

vars == <<tpc, tzone, trecords, tres, tback,
          mutex, pc, req, existing, tr, idx, updated, ret, calls>>

NoResult == [recordSets |-> <<>>, err |-> <<>>]

\* ------------------------------------------------------------------------
\* The translator on its own: fromLibdns, then fromLeaseweb on its result
\* ------------------------------------------------------------------------

\* The callers of the provider: two goroutines sharing one Provider.
Callers == {1, 2}

NoReq == [op |-> "none", zone |-> "", records |-> <<>>]

NoRet == [status |-> "none", records |-> <<>>]

\* A Provider value right after construction: nothing invoked, mutex free.
ProviderInit ==
    /\ mutex = 0
    /\ pc = [p \in Callers |-> "idle"]
    /\ req = [p \in Callers |-> NoReq]
    /\ existing = [p \in Callers |-> <<>>]
    /\ tr = [p \in Callers |-> NoResult]
    /\ idx = [p \in Callers |-> 0]
    /\ updated = [p \in Callers |-> <<>>]
    /\ ret = [p \in Callers |-> NoRet]
    /\ calls = <<>>

TInit ==
    /\ ProviderInit
    /\ tpc = "input"
    /\ tzone \in Zones
    /\ trecords \in SeqsUpTo(Records, MaxRecords)
    /\ tres = NoResult
    /\ tback = <<>>

\* recordSets, err := fromLibdns(zone, records)
TTranslate ==
    /\ tpc = "input"
    /\ tres' = fromLibdns(tzone, trecords)
    /\ tpc' = "translated"
    /\ UNCHANGED <<tzone, trecords, tback>>
    /\ UNCHANGED pvars

\* fromLeaseweb(leasewebRecordSets{recordSets}) after a nil error
TFlatten ==
    /\ tpc = "translated"
    /\ tres.err = <<>>
    /\ tback' = fromLeaseweb(tres.recordSets)
    /\ tpc' = "flattened"
    /\ UNCHANGED <<tzone, trecords, tres>>
    /\ UNCHANGED pvars

TNext == TTranslate \/ TFlatten

SpecT == TInit /\ [][TNext]_vars

\* ------------------------------------------------------------------------
\* Claims about the translator (checked under SpecT)
\* ------------------------------------------------------------------------

Translated == tpc \in {"translated", "flattened"}

ValidTTL(d) == Contains(supportedTTLs, Seconds(d))

\* C1: fromLibdns collapses the records that share a name and type into one
\* record set: no two returned record sets have the same (name, type).
C1_OneSetPerNameType ==
    Translated =>
        \A i, j \in 1..Len(tres.recordSets) :
            (tres.recordSets[i].Name = tres.recordSets[j].Name
             /\ tres.recordSets[i].Type = tres.recordSets[j].Type) => i = j

SubForms == {"sub", "sub.example.com", "sub.example.com."}

\* C2: under zone "example.com." the names "sub", "sub.example.com" and
\* "sub.example.com." all become the record-set name "sub.example.com.".
C2_SubFormsSameName ==
    (Translated /\ tzone = "example.com."
     /\ \A i \in 1..Len(trecords) : trecords[i].Name \in SubForms)
    => \A k \in 1..Len(tres.recordSets) :
           tres.recordSets[k].Name = "sub.example.com."

\* C3: two records of one merge group with different whitelist-valid TTLs
\* make fromLibdns return an error naming the record name and both TTLs,
\* and no record set.
C3_TTLConflictIsError ==
    Translated =>
        \A i, j \in 1..Len(trecords) :
            (/\ i < j
             /\ recordName(tzone, trecords[i].Name) = recordName(tzone, trecords[j].Name)
             /\ trecords[i].Type = trecords[j].Type
             /\ ValidTTL(trecords[i].TTL) /\ ValidTTL(trecords[j].TTL)
             /\ Seconds(trecords[i].TTL) # Seconds(trecords[j].TTL))
            => /\ tres.recordSets = <<>>
               /\ \E e \in 1..Len(tres.err) :
                    /\ tres.err[e].Name = recordName(tzone, trecords[i].Name)
                    /\ {tres.err[e].TTL, tres.err[e].otherTTL}
                         = {Seconds(trecords[i].TTL), Seconds(trecords[j].TTL)}

\* C9: records whose TTL is not on the whitelist are translated with TTL 60
\* and cause no failure, also when several of them share a merge group.
C9_UnsupportedTTLDefaults ==
    (Translated /\ \A i \in 1..Len(trecords) : ~ValidTTL(trecords[i].TTL))
    => /\ tres.err = <<>>
       /\ \A k \in 1..Len(tres.recordSets) : tres.recordSets[k].TTL = 60

Tuples(recs) == {recs[i] : i \in 1..Len(recs)}

\* C10: for records with pairwise distinct (name, type) and whitelist-valid
\* TTLs, fromLeaseweb(fromLibdns(zone, records)) is exactly the input's
\* (record-set name, type, value, ttl) tuples.
C10_RoundTrip ==
    (/\ Translated
     /\ \A i, j \in 1..Len(trecords) :
           (trecords[i].Name = trecords[j].Name
            /\ trecords[i].Type = trecords[j].Type) => i = j
     /\ \A i \in 1..Len(trecords) :
           ValidTTL(trecords[i].TTL)
           /\ trecords[i].TTL = Seconds(trecords[i].TTL) * Second)
    => /\ tres.err = <<>>
       /\ tpc = "flattened" =>
            Tuples(tback) =
              {[Name |-> recordName(tzone, trecords[i].Name),
                Type |-> trecords[i].Type,
                Value |-> trecords[i].Value,
                TTL |-> trecords[i].TTL] : i \in 1..Len(trecords)}

\* ------------------------------------------------------------------------
\* Inputs of the provider
\* ------------------------------------------------------------------------

Ops == {"GetRecords", "AppendRecords", "SetRecords", "DeleteRecords"}

\* The zone callers pass to the operations, as libdns hands it over.
OpZones == {"example.com."}

\* The records callers pass to the operations.
OpRecords == {[Name |-> "sub", Type |-> "TXT", Value |-> "x", TTL |-> 300 * Second],
              [Name |-> "sub.example.com.", Type |-> "TXT", Value |-> "y", TTL |-> 300 * Second],
              [Name |-> "sub.example.com.", Type |-> "TXT", Value |-> "y", TTL |-> 3600 * Second]}

OpInputs == SeqsUpTo(OpRecords, MaxOpRecords)

\* The record sets the vendor may hold; a record set of the vendor has at
\* least one value.
ListedSets == {[Name |-> "sub.example.com.", Type |-> "TXT", TTL |-> 300, Content |-> <<"old">>],
               [Name |-> "sub.example.com.", Type |-> "A", TTL |-> 300, Content |-> <<"1.2.3.4">>]}

\* The listings a 2xx answer to GET may decode to.
Listings == {<<>>} \cup {<<s>> : s \in ListedSets}

\* How a remote call ends: a 2xx answer, a non-2xx answer, or a transport
\* error with no response (client.Do returns res = nil, err # nil).
Outcomes == {"ok", "status", "neterr"}

\* ------------------------------------------------------------------------
\* Provider (its four operations) and client.go
\* ------------------------------------------------------------------------

\* sync.Mutex.Lock proceeds only on a free mutex
CanLock_noGuard(m) == TRUE

CanLock(m) == m = 0

\* one entry of the log of remote calls
Request(p, method, domain, name, type, outcome) ==
    [proc |-> p, method |-> method, domain |-> domain, name |-> name,
     type |-> type, outcome |-> outcome]

\* return from a public operation; the deferred p.mutex.Unlock() runs
Exit(p, status, records) ==
    /\ ret' = [ret EXCEPT ![p] = [status |-> status, records |-> records]]
    /\ pc' = [pc EXCEPT ![p] = "done"]
    /\ mutex' = 0

\* `defer res.Body.Close()` with res = nil: the operation panics with a nil
\* dereference; the deferred p.mutex.Unlock() still runs
Panic(p) == Exit(p, "panic", <<>>)

\* SetRecords' hasExisting with a record set of another type under the same name
hasExisting_nameOnly(existingRecords, recordSet) ==
    \E i \in 1..Len(existingRecords) : existingRecords[i].Name = recordSet.Name

\* SetRecords: the loop that sets hasExisting
hasExisting(existingRecords, recordSet) ==
    \E i \in 1..Len(existingRecords) :
        existingRecords[i].Name = recordSet.Name /\ existingRecords[i].Type = recordSet.Type

\* A caller invokes one of the four operations.
Call(p) ==
    /\ pc[p] = "idle"
    /\ \E op \in Ops, zone \in OpZones :
         \E records \in (IF op = "GetRecords" THEN {<<>>} ELSE OpInputs) :
            req' = [req EXCEPT ![p] = [op |-> op, zone |-> zone, records |-> records]]
    /\ pc' = [pc EXCEPT ![p] = "lock"]
    /\ UNCHANGED <<mutex, existing, tr, idx, updated, ret, calls>>
    /\ UNCHANGED <<tpc, tzone, trecords, tres, tback>>

\* p.mutex.Lock() at the head of each operation
Lock(p) ==
    /\ pc[p] = "lock"
    /\ CanLock(mutex)
    /\ mutex' = p
    /\ pc' = [pc EXCEPT ![p] =
                IF req[p].op \in {"GetRecords", "SetRecords"} THEN "list" ELSE "translate"]
    /\ UNCHANGED <<req, existing, tr, idx, updated, ret, calls>>
    /\ UNCHANGED <<tpc, tzone, trecords, tres, tback>>

\* p.listRecordSets(domainName) in GetRecords and SetRecords
ListRecordSets(p) ==
    /\ pc[p] = "list"
    /\ \E o \in Outcomes :
        /\ calls' = Append(calls, Request(p, "GET", TrimSuffix(req[p].zone, "."), "", "", o))
        /\ \/ /\ o = "neterr"
              /\ Panic(p)
              /\ UNCHANGED existing
           \/ /\ o = "status"
              /\ Exit(p, "error", <<>>)
              /\ UNCHANGED existing
           \/ /\ o = "ok"
              /\ \E listing \in Listings :
                   /\ existing' = [existing EXCEPT ![p] = listing]
                   /\ IF req[p].op = "GetRecords"
                      THEN Exit(p, "ok", fromLeaseweb(listing))
                      ELSE /\ pc' = [pc EXCEPT ![p] = "translate"]
                           /\ UNCHANGED <<mutex, ret>>
    /\ UNCHANGED <<req, tr, idx, updated>>
    /\ UNCHANGED <<tpc, tzone, trecords, tres, tback>>

\* recordSets, err := fromLibdns(zone, records) in AppendRecords,
\* SetRecords (which return the error) and DeleteRecords (which goes on to
\* its loop)
Translate(p) ==
    /\ pc[p] = "translate"
    /\ LET r == fromLibdns(req[p].zone, req[p].records)
       IN /\ tr' = [tr EXCEPT ![p] = r]
          /\ IF req[p].op \in {"AppendRecords", "SetRecords"} /\ r.err # <<>>
             THEN /\ Exit(p, "error", <<>>)
                  /\ UNCHANGED idx
             ELSE /\ pc' = [pc EXCEPT ![p] = "write"]
                  /\ idx' = [idx EXCEPT ![p] = 1]
                  /\ UNCHANGED <<mutex, ret>>
    /\ UNCHANGED <<req, existing, updated, calls>>
    /\ UNCHANGED <<tpc, tzone, trecords, tres, tback>>

InLoop(p, op) ==
    /\ pc[p] = "write"
    /\ req[p].op = op
    /\ idx[p] <= Len(tr[p].recordSets)

\* what follows a remote write: panic, error return, or the next iteration
AfterWrite(p, o, more) ==
    \/ /\ o = "neterr"
       /\ Panic(p)
       /\ UNCHANGED <<idx, updated>>
    \/ /\ o = "status"
       /\ Exit(p, "error", <<>>)
       /\ UNCHANGED <<idx, updated>>
    \/ /\ o = "ok"
       /\ idx' = [idx EXCEPT ![p] = @ + 1]
       /\ updated' = [updated EXCEPT ![p] = @ \o more]
       /\ UNCHANGED <<mutex, pc, ret>>

\* one iteration of the loop of AppendRecords: p.createRecordSet(zone, recordSet)
AppendStep(p) ==
    /\ InLoop(p, "AppendRecords")
    /\ LET recordSet == tr[p].recordSets[idx[p]]
       IN \E o \in Outcomes :
            /\ calls' = Append(calls, Request(p, "POST", TrimSuffix(req[p].zone, "."),
                                               recordSet.Name, recordSet.Type, o))
            /\ AfterWrite(p, o, <<>>)
    /\ UNCHANGED <<req, existing, tr>>
    /\ UNCHANGED <<tpc, tzone, trecords, tres, tback>>

\* one iteration of the loop of SetRecords with hasExisting:
\* p.updateRecordSet(zone, recordSet), which answers leasewebRecordSets{}
SetStepUpdate(p) ==
    /\ InLoop(p, "SetRecords")
    /\ LET recordSet == tr[p].recordSets[idx[p]]
       IN /\ hasExisting(fromLeaseweb(existing[p]), recordSet)
          /\ \E o \in Outcomes :
               /\ calls' = Append(calls, Request(p, "PUT", req[p].zone,
                                                  recordSet.Name, recordSet.Type, o))
               /\ AfterWrite(p, o, fromLeaseweb(<<>>))
    /\ UNCHANGED <<req, existing, tr>>
    /\ UNCHANGED <<tpc, tzone, trecords, tres, tback>>

\* one iteration of the loop of SetRecords without hasExisting:
\* p.createRecordSet(zone, recordSet)
SetStepCreate(p) ==
    /\ InLoop(p, "SetRecords")
    /\ LET recordSet == tr[p].recordSets[idx[p]]
       IN /\ ~hasExisting(fromLeaseweb(existing[p]), recordSet)
          /\ \E o \in Outcomes :
               /\ calls' = Append(calls, Request(p, "POST", TrimSuffix(req[p].zone, "."),
                                                  recordSet.Name, recordSet.Type, o))
               /\ AfterWrite(p, o, <<>>)
    /\ UNCHANGED <<req, existing, tr>>
    /\ UNCHANGED <<tpc, tzone, trecords, tres, tback>>

\* one iteration of the loop of DeleteRecords: the check of err, then the
\* DELETE request
DeleteStep(p) ==
    /\ InLoop(p, "DeleteRecords")
    /\ LET recordSet == tr[p].recordSets[idx[p]]
       IN IF tr[p].err # <<>>
          THEN /\ Exit(p, "error", <<>>)
               /\ UNCHANGED <<idx, updated, calls>>
          ELSE \E o \in Outcomes :
                 /\ calls' = Append(calls, Request(p, "DELETE", TrimSuffix(req[p].zone, "."),
                                                    recordSet.Name, recordSet.Type, o))
                 /\ AfterWrite(p, o, <<>>)
    /\ UNCHANGED <<req, existing, tr>>
    /\ UNCHANGED <<tpc, tzone, trecords, tres, tback>>

\* the return after the loop: records for AppendRecords and DeleteRecords,
\* updatedRecords for SetRecords
ReturnOk(p) ==
    /\ pc[p] = "write"
    /\ idx[p] > Len(tr[p].recordSets)
    /\ Exit(p, "ok", IF req[p].op = "SetRecords" THEN updated[p] ELSE req[p].records)
    /\ UNCHANGED <<req, existing, tr, idx, updated, calls>>
    /\ UNCHANGED <<tpc, tzone, trecords, tres, tback>>

Init ==
    /\ ProviderInit
    /\ tpc = "off"
    /\ tzone = ""
    /\ trecords = <<>>
    /\ tres = NoResult
    /\ tback = <<>>

Next ==
    \E p \in Callers :
        \/ Call(p)
        \/ Lock(p)
        \/ ListRecordSets(p)
        \/ Translate(p)
        \/ AppendStep(p)
        \/ SetStepUpdate(p)
        \/ SetStepCreate(p)
        \/ DeleteStep(p)
        \/ ReturnOk(p)

Spec == Init /\ [][Next]_vars

\* ------------------------------------------------------------------------
\* Claims about the provider (checked under Spec)
\* ------------------------------------------------------------------------

\* the caller is inside an operation, between Lock and return
Running(p) == pc[p] \in {"list", "translate", "write"}

CallsOf(p) == SelectSeq(calls, LAMBDA c : c.proc = p)

WritesOf(p) == SelectSeq(calls, LAMBDA c : c.proc = p /\ c.method # "GET")

\* the listing holds a record set with the name and type of recordSet
Listed(listing, recordSet) ==
    \E i \in 1..Len(listing) :
        listing[i].Name = recordSet.Name /\ listing[i].Type = recordSet.Type

Writers == {"AppendRecords", "SetRecords", "DeleteRecords"}

\* C4: the remote-call sequences of two invocations on one Provider never
\* overlap: an invocation holds the mutex from entry to return, and no call
\* of another invocation lies between two calls of one invocation.
C4_NoOverlap ==
    /\ \A p \in Callers : Running(p) => mutex = p
    /\ \A i, j, k \in 1..Len(calls) :
          (i < j /\ j < k /\ calls[i].proc = calls[k].proc)
          => calls[j].proc = calls[i].proc

\* Both callers have issued remote calls, one of them a SetRecords that
\* listed and wrote.
C4_Witness ==
    \E p, q \in Callers :
        /\ p # q
        /\ req[p].op = "SetRecords"
        /\ Len(WritesOf(p)) >= 1
        /\ Len(CallsOf(q)) >= 1

C6_UpdatedSetsReturned ==
    \A p \in Callers :
        (req[p].op = "SetRecords" /\ ret[p].status = "ok") =>
            \A k \in 1..Len(tr[p].recordSets) :
                LET recordSet == tr[p].recordSets[k]
                IN IF Listed(existing[p], recordSet)
                   THEN \A v \in 1..Len(recordSet.Content) :
                          \E i \in 1..Len(ret[p].records) :
                            ret[p].records[i] = [Name |-> recordSet.Name,
                                                 Type |-> recordSet.Type,
                                                 Value |-> recordSet.Content[v],
                                                 TTL |-> recordSet.TTL * Second]
                   ELSE \A i \in 1..Len(ret[p].records) :
                          ~(ret[p].records[i].Name = recordSet.Name
                            /\ ret[p].records[i].Type = recordSet.Type)

\* C7: when translating the input fails with a TTL conflict, AppendRecords,
\* SetRecords and DeleteRecords return an error, never a success.
C7_TranslationErrorReturned ==
    \A p \in Callers :
        (/\ req[p].op \in Writers
         /\ ret[p].status \in {"ok", "error"}
         /\ fromLibdns(req[p].zone, req[p].records).err # <<>>)
        => ret[p].status = "error"

\* C8: the record sets are written one after another in translator order,
\* each at most once; when a write fails the operation returns an error
\* with no records and issues no further call.
C8_FirstFailureAborts ==
    \A p \in Callers :
        req[p].op \in Writers =>
            LET w == WritesOf(p)
                sets == tr[p].recordSets
            IN /\ Len(w) <= Len(sets)
               /\ \A k \in 1..Len(w) :
                    /\ w[k].name = sets[k].Name
                    /\ w[k].type = sets[k].Type
                    /\ w[k].method \in (CASE req[p].op = "AppendRecords" -> {"POST"}
                                          [] req[p].op = "SetRecords" -> {"PUT", "POST"}
                                          [] req[p].op = "DeleteRecords" -> {"DELETE"})
                    /\ w[k].outcome # "ok" =>
                         /\ k = Len(w)
                         /\ ret[p] = [status |-> "error", records |-> <<>>]

\* C11: every outbound request (list, create, update, delete) carries as
\* its domain path segment the zone with any trailing dot stripped.
C11_DomainWithoutTrailingDot ==
    \A i \in 1..Len(calls) :
        calls[i].domain = TrimSuffix(req[calls[i].proc].zone, ".")

\* C12: when a remote call fails at the network level (a transport error
\* and no response), the operation that issued it returns an error to its
\* caller, as it does for a non-2xx status.
C12_NetworkErrorReturned ==
    \A i \in 1..Len(calls) :
        calls[i].outcome = "neterr" =>
            ret[calls[i].proc] = [status |-> "error", records |-> <<>>]

\* A step of the invocation of p once it holds the mutex.
Step(p) ==
    \/ ListRecordSets(p)
    \/ Translate(p)
    \/ AppendStep(p)
    \/ SetStepUpdate(p)
    \/ SetStepCreate(p)
    \/ DeleteStep(p)
    \/ ReturnOk(p)

\* Scheduling: a goroutine that can take a step takes it (remote calls
\* return), and sync.Mutex hands a mutex that keeps becoming free to a
\* goroutine blocked in Lock (starvation mode).
FairSpec ==
    /\ Spec
    /\ \A p \in Callers : WF_vars(Step(p)) /\ SF_vars(Lock(p))

\* the operation of p has returned values to its caller
Returned(p) == ret[p].status \in {"ok", "error"}

\* C13: every operation releases the mutex on every exit path: the mutex
\* is free whenever no operation is in progress, and every invocation
\* waiting for the mutex eventually acquires it and completes.
C13_LockReleasedAndProgress ==
    /\ []((\A p \in Callers : ~Running(p)) => mutex = 0)
    /\ \A p \in Callers : (pc[p] = "lock") ~> Returned(p)

EndsWith(s, suffix) ==
    Len(s) >= Len(suffix) /\ SubSeq(s, Len(s) - Len(suffix) + 1, Len(s)) = suffix

\* C14: every record-set name fromLibdns produces ends with the zone
\* followed by a trailing dot, for zones given with and without the dot.
C14_NameDotTerminated ==
    Translated =>
        \A k \in 1..Len(tres.recordSets) :
            EndsWith(tres.recordSets[k].Name, TrimSuffix(tzone, ".") \o ".")

RECURSIVE ContentCount(_)
ContentCount(recordSets) ==
    IF recordSets = <<>> THEN 0
    ELSE Len(Head(recordSets).Content) + ContentCount(Tail(recordSets))

\* C15: on success of fromLibdns every input record contributes its value
\* to exactly one record set: the content values of all returned sets are
\* as many as the input records.
C15_NoDoubleCounting ==
    (Translated /\ tres.err = <<>>) =>
        ContentCount(tres.recordSets) = Len(trecords)

\* the input records of p hold a TTL conflict: the translator's loop
\* collects at least one error for them
HasConflict(p) ==
    Len(OuterLoop(req[p].zone, req[p].records, 1,
                  [i \in 1..Len(req[p].records) |-> FALSE], <<>>, <<>>).errors) > 0

\* C16: when translating the input fails with a validation error,
\* AppendRecords, SetRecords and DeleteRecords issue no create, update or
\* delete at all.
C16_NoWriteOnValidationError ==
    \A p \in Callers :
        (req[p].op \in Writers /\ HasConflict(p)) => WritesOf(p) = <<>>

\* Each of the three writing operations has run to its end on an input with
\* a TTL conflict; the SetRecords had listed before.
C16_Witness ==
    /\ \E p \in Callers :
         /\ req[p].op = "SetRecords" /\ HasConflict(p)
         /\ pc[p] = "done" /\ tr[p].err # <<>> /\ Len(CallsOf(p)) = 1
    /\ \E p \in Callers :
         /\ req[p].op \in {"AppendRecords", "DeleteRecords"} /\ HasConflict(p)
         /\ pc[p] = "done" /\ tr[p].err # <<>>

====
